---- MODULE Spec2Model ----
(***************************************************************************)
(* airmon.py: the sampling loop of main(), the JSON pull handler           *)
(* SensorDataServer.do_GET that runs in a second thread, and the pure      *)
(* classifiers get_pm_description, particles2color, celsius2fahrenheit.    *)
(*                                                                         *)
(* Time is in whole seconds.  Temperatures in Fahrenheit are kept in       *)
(* tenths of a degree so that c * 1.8 + 32 stays an integer.  The          *)
(* particulate thresholds 35.4 and 55.4 are compared in tenths as well.    *)
(* Python's None is the integer None (no sensor reading is negative).      *)
(***************************************************************************)
EXTENDS Integers, Sequences, FiniteSets, TLC

\* ------------------------------------------------------------------ bounds
MaxCycles == 4        \* iterations of the loop explored with steady readings
MaxVaried == 2        \* iterations explored when a sensor's readings change
MaxPolls == 2         \* not-ready polls of the SCD40 explored in a run
MaxVal == 520         \* largest concentration given to get_pm_description
MaxPM25 == 260        \* largest PM2.5 given to particles2color
MaxPM100 == 430       \* largest PM10 given to particles2color
MaxCelsius == 50      \* the BME280 reads -MaxCelsius..MaxCelsius in SpecTemp
MaxConverted == 1     \* iterations of the loop explored in SpecTemp

\* ------------------------------------------------------- program constants
None == -1
Warmup == 5           \* interval += 5 when the SCD40 is enabled
PollSleep == 1        \* time.sleep(1) while the SCD40 is not ready

hostname == "host"

\* command-line values the model draws from (args.interval, args.ginterval)
Intervals == {1, 2}
LogIntervals == {2, 3}

\* the keys of the dict PM25_I2C.read() returns that main() uses, in order
AirqualKeys ==
    << "pm10 standard", "pm25 standard", "pm100 standard",
       "particles 03um", "particles 05um", "particles 10um",
       "particles 25um", "particles 50um", "particles 100um" >>

AirqualKeySet == { AirqualKeys[i] : i \in 1..Len(AirqualKeys) }

Reading(p10, p25, p100) ==
    [ k \in AirqualKeySet |->
        CASE k = "pm10 standard"  -> p10
          [] k = "pm25 standard"  -> p25
          [] k = "pm100 standard" -> p100
          [] OTHER                -> 7 ]

\* What the hardware does in a run.  In every run the particulate read may
\* fail, every append may fail and the buttons are free; on top of that the
\* readings of at most one sensor change from read to read:
\*   "scd40"     the CO2 value is 0 or 400
\*   "notready"  data_ready may be false
\*   "humidity"  bme280.humidity changes
\*   "pressure"  bme280.pressure changes
\*   "pm25"      the particulate dict changes
\* and "celsius" (SpecTemp only): the BME280 reads any temperature of a range
Envs == { "steady", "scd40", "notready", "humidity", "pressure", "pm25" }

CO2Values(e) == IF e = "scd40" THEN {0, 400} ELSE {400}
BmeCelsiusValues(e) ==
    IF e = "celsius" THEN (0 - MaxCelsius)..MaxCelsius ELSE {0}
PctCelsiusValues(e) == {100}
HumidityValues(e) == IF e = "humidity" THEN {40, 41} ELSE {40}
PressureValues(e) == IF e = "pressure" THEN {1000, 1001} ELSE {1000}
AirqualReadings(e) ==
    IF e = "pm25" THEN { Reading(0, 0, 0), Reading(1, 13, 510) }
    ELSE { Reading(1, 13, 510) }

\* a run's env names a sensor only if that sensor is enabled; the runs with
\* changing readings use the smallest intervals
EnvFits(a, e) ==
    /\ e \in {"scd40", "notready"} => a.scd40
    /\ e \in {"humidity", "pressure"} => a.bme280
    /\ e = "pm25" => a.pm25
    /\ e # "steady" => a.interval = 1 /\ a.ginterval = 2

\* 'airmon_' + k.replace(' ', '_')
DataKey(k) ==
    CASE k = "pm10 standard"   -> "airmon_pm10_standard"
      [] k = "pm25 standard"   -> "airmon_pm25_standard"
      [] k = "pm100 standard"  -> "airmon_pm100_standard"
      [] k = "particles 03um"  -> "airmon_particles_03um"
      [] k = "particles 05um"  -> "airmon_particles_05um"
      [] k = "particles 10um"  -> "airmon_particles_10um"
      [] k = "particles 25um"  -> "airmon_particles_25um"
      [] k = "particles 50um"  -> "airmon_particles_50um"
      [] k = "particles 100um" -> "airmon_particles_100um"

PMDataKeys == { DataKey(k) : k \in AirqualKeySet }

\* ---------------------------------------------------------------- helpers
EmptyDoc == [ k \in {} |-> None ]

\* dict.update({k: v}) / d[k] = v
Update(d, k, v) == (k :> v) @@ d

Has(d, k) == k \in DOMAIN d

\* Python truthiness of a number-or-None: None and 0 are false
Truthy(v) == v # None /\ v # 0

\* ------------------------------------------------------------- classifier
\* get_pm_description with inclusive upper boundaries
get_pm_description_le(val) ==
    IF val <= 51 THEN "good"
    ELSE IF val <= 101 THEN "moderate"
    ELSE IF val <= 151 THEN "usg"
    ELSE IF val <= 201 THEN "unhealthy"
    ELSE IF val <= 300 THEN "very unhealthy"
    ELSE IF val <= 500 THEN "hazardous"
    ELSE "None"

\* lines 71-83; "None" stands for the None a call returns at 500 and above
get_pm_description(val) ==
    IF val < 51 THEN "good"
    ELSE IF val < 101 THEN "moderate"
    ELSE IF val < 151 THEN "usg"
    ELSE IF val < 201 THEN "unhealthy"
    ELSE IF val < 300 THEN "very unhealthy"
    ELSE IF val < 500 THEN "hazardous"
    ELSE "None"

\* (celsius * 1.8) + 32, in tenths of a degree Fahrenheit
\* celsius2fahrenheit with the offset left unscaled
celsius2fahrenheit_offset(celsius) == (celsius * 18) + 32

celsius2fahrenheit(celsius) == (celsius * 18) + 320

\* the if/elif chain of particles2color; 35.4 and 55.4 compared in tenths
particles2color(pm10std, pm25std, pm100std) ==
    IF pm25std > 2 \/ pm100std > 2 THEN "olive"
    ELSE IF pm25std > 12 \/ pm100std > 55 THEN "yellow"
    ELSE IF pm25std * 10 > 354 \/ pm100std > 155 THEN "orange"
    ELSE IF pm25std * 10 > 554 \/ pm100std > 254 THEN "red"
    ELSE IF pm25std > 150 \/ pm100std > 355 THEN "purple"
    ELSE IF pm25std > 250 \/ pm100std > 425 THEN "magenta"
    ELSE "green"

\* ------------------------------------------------------------------ state
VARIABLES
    env,          \* what the hardware does in this run (see Envs)
    args,         \* parsed command line: sensor/sink flags and the intervals
    celsius,      \* the Celsius readings this iteration converted, or None
    data,         \* the global dict do_GET serialises
    pc,           \* where the main thread is
    n,            \* iterations of the loop begun so far
    polls,        \* not-ready polls so far
    now,          \* the clock (time.localtime / datetime.now)
    screen,       \* screen-visibility flag
    logged_time,  \* time of the last successful append, or None
    started,      \* start_periodic_measurement was called
    stops,        \* number of stop_periodic_measurement calls
    co2,          \* last CO2 value read, or None
    airqual,      \* last dict read from the PM sensor, or None
    tx,           \* the cycle's timestamp
    ftemp,        \* the cycle's temperature (tenths of a degree F), or None
    humidity,     \* the cycle's first humidity read, or None
    pm10std, pm25std, pm100std,   \* the cycle's mass concentrations, or None
    pm25def, pm100def,            \* their bands
    ki,           \* index of the next airqual key the publish loop copies
    lines,        \* the text lines handed to the display
    tam,          \* the "next logging" value of the cycle, or None
    c,            \* the last background colour computed
    gauges,       \* the prometheus gauges
    values,       \* the cycle's row for sheet.append_row
    btn,          \* the button levels at the four reads of this iteration's button step
    cyc,          \* what the current cycle has done so far
    prev,         \* the dict `data` named when the current publish began
    resp,         \* the last document do_GET wrote
    respMid       \* that document was read since the current publish began

loopLocals == << tx, ftemp, humidity, pm10std, pm25std, pm100std,
                 pm25def, pm100def >>

vars == << env, args, celsius, data, pc, n, polls, now, screen, logged_time, started, stops, co2,
           airqual, tx, ftemp, humidity, pm10std, pm25std, pm100std,
           pm25def, pm100def, ki, lines, tam, c, gauges, values, btn, cyc,
           prev, resp, respMid >>

GaugeNames == { "CO2", "TEMP", "HUMIDITY", "PRESSURE", "PM10", "PM25", "PM100" }

NoCycle ==
    [ pmfail |-> FALSE, published |-> FALSE, set |-> {}, append |-> "none",
      gate |-> "none", rendered |-> FALSE, lastlog |-> "none",
      ready |-> FALSE, afterfail |-> FALSE ]

\* cyc at the top of the next iteration: lastlog keeps how the latest
\* rate-limit decision of an earlier iteration ended, afterfail that the
\* iteration before this one left through the `continue` of line 308
NextCycle(cy) ==
    [ NoCycle EXCEPT !.lastlog = IF cy.gate = "none" THEN cy.lastlog
                                 ELSE IF cy.gate = "closed" THEN "closed"
                                 ELSE cy.append,
                     !.afterfail = cy.pmfail ]

NoButtons == [ a1 |-> FALSE, b1 |-> FALSE, a2 |-> FALSE, b2 |-> FALSE,
               read |-> FALSE ]

NoRow == [ t |-> None ]

NoCelsius == [ bme |-> None, pct |-> None ]

\* airqual = None (line 272), as a dict without keys: both are false in `if`
NoAirqual == [ k \in {} |-> None ]

NoDoc == [ k \in {"none"} |-> None ]

Args ==
    [ scd40 : BOOLEAN, pct2075 : BOOLEAN, bme280 : BOOLEAN, st7789 : BOOLEAN,
      pm25 : BOOLEAN, google : BOOLEAN,
      interval : Intervals, ginterval : LogIntervals ]

\* the state in which main() enters `while True`
LoopEntry(a, e) ==
    /\ env = e
    /\ args = a
    /\ celsius = NoCelsius
    /\ data = Update(Update(EmptyDoc, "airmon_time", 0), "airmon_station", hostname)
    /\ now = 0
    /\ n = 0
    /\ polls = 0
    /\ screen = a.st7789
    /\ logged_time = None
    /\ started = a.scd40
    /\ stops = 0
    /\ co2 = None
    /\ airqual = NoAirqual
    /\ tx = None /\ ftemp = None /\ humidity = None
    /\ pm10std = None
    /\ pm25def = "None" /\ pm100def = "None"
    /\ ki = 1
    /\ lines = << >>
    /\ tam = None
    /\ c = "none"
    /\ gauges = [ g \in GaugeNames |-> None ]
    /\ values = NoRow
    /\ btn = NoButtons
    /\ cyc = NoCycle
    /\ prev = data
    /\ resp = NoDoc
    /\ respMid = FALSE

Init ==
    \E a \in Args, e \in Envs :
        /\ EnvFits(a, e)
        /\ LoopEntry(a, e)
        /\ pm25std = None /\ pm100std = None
        /\ pc = "sleep"

\* ------------------------------------------------------- the sampling loop
\* line 274-276: interval = args.interval, plus 5 with the SCD40
LoopInterval == IF args.scd40 THEN args.interval + Warmup ELSE args.interval

\* how many iterations of `while True` a run of the model follows
Iterations(e) ==
    IF e = "steady" THEN MaxCycles
    ELSE IF e = "celsius" THEN MaxConverted
    ELSE MaxVaried

\* line 280: time.sleep(interval) at the top of every iteration.  Every local
\* of the loop body is assigned again in the iteration before it is read
\* (lines 288-290, 310-318, 357-358, 370, 375), so the model drops the old
\* values here; co2 and airqual are not, they are only assigned by a read.
Sleep ==
    /\ pc = "sleep"
    /\ n < Iterations(env)
    /\ n' = n + 1
    /\ now' = now + LoopInterval
    /\ celsius' = NoCelsius
    /\ tx' = None /\ ftemp' = None /\ humidity' = None
    /\ pm10std' = None /\ pm25std' = None /\ pm100std' = None
    /\ pm25def' = "None" /\ pm100def' = "None"
    /\ lines' = << >> /\ tam' = None /\ c' = "none" /\ values' = NoRow
    /\ cyc' = NextCycle(cyc)
    /\ btn' = NoButtons
    /\ resp' = NoDoc
    /\ respMid' = FALSE
    /\ pc' = IF args.scd40 THEN "co2" ELSE "read"
    /\ UNCHANGED << env, args, polls, data, screen, logged_time, started,
                    stops, co2, airqual, ki, gauges, prev >>

\* Co2NotReady giving up after the poll: the iteration goes on unready
Co2GiveUp ==
    /\ pc = "co2"
    /\ env = "notready"
    /\ polls < MaxPolls
    /\ polls' = polls + 1
    /\ now' = now + PollSleep
    /\ pc' = "read"
    /\ UNCHANGED << env, args, celsius, n, data, screen, logged_time, started,
                    stops, co2, airqual, loopLocals, ki, lines, tam, c, gauges,
                    values, btn, cyc, prev, resp, respMid >>

\* lines 283-285: data_ready is false, sleep a second and poll again
Co2NotReady ==
    /\ pc = "co2"
    /\ env = "notready"
    /\ polls < MaxPolls
    /\ polls' = polls + 1
    /\ now' = now + PollSleep
    /\ UNCHANGED << env, args, celsius, n, data, pc, screen, logged_time, started, stops, co2,
                    airqual, loopLocals, ki, lines, tam, c, gauges, values,
                    btn, cyc, prev, resp, respMid >>

\* lines 283, 286: data_ready is true, co2 = scd4x.CO2
Co2Read ==
    /\ pc = "co2"
    /\ \E v \in CO2Values(env) : co2' = v
    /\ cyc' = [ cyc EXCEPT !.ready = TRUE ]
    /\ pc' = "read"
    /\ UNCHANGED << env, args, celsius, n, polls, data, now, screen, logged_time, started, stops,
                    airqual, loopLocals, ki, lines, tam, c, gauges, values,
                    btn, prev, resp, respMid >>

\* ReadPMFail with a retry on the spot: back to the reads without the sleep
\* at the top of the loop
ReadPMRetryNow ==
    /\ pc = "read"
    /\ args.pm25
    /\ pm10std' = None /\ pm25std' = None /\ pm100std' = None
    /\ pm25def' = "None" /\ pm100def' = "None"
    /\ cyc' = [ cyc EXCEPT !.pmfail = TRUE ]
    /\ pc' = IF args.scd40 THEN "co2" ELSE "read"
    /\ UNCHANGED << env, args, celsius, n, polls, data, now, screen, logged_time,
                    started, stops, co2, airqual, tx, ftemp, humidity, ki,
                    lines, tam, c, gauges, values, btn, prev, resp, respMid >>

\* ReadPMFail without the `continue`: the iteration goes on after the warning
ReadPMFallThrough ==
    /\ pc = "read"
    /\ args.pm25
    /\ pm10std' = None /\ pm25std' = None /\ pm100std' = None
    /\ pm25def' = "None" /\ pm100def' = "None"
    /\ tx' = now
    /\ cyc' = [ cyc EXCEPT !.pmfail = TRUE ]
    /\ pc' = "pub_reset"
    /\ UNCHANGED << env, args, celsius, n, polls, data, now, screen, logged_time,
                    started, stops, co2, airqual, ftemp, humidity, ki, lines,
                    tam, c, gauges, values, btn, prev, resp, respMid >>

\* lines 288-308 when pm25.read() raises RuntimeError: warning, continue
ReadPMFail ==
    /\ pc = "read"
    /\ args.pm25
    /\ pm10std' = None /\ pm25std' = None /\ pm100std' = None
    /\ pm25def' = "None" /\ pm100def' = "None"
    /\ cyc' = [ cyc EXCEPT !.pmfail = TRUE ]
    /\ pc' = "sleep"
    /\ UNCHANGED << env, args, celsius, n, polls, data, now, screen, logged_time, started, stops, co2,
                    airqual, tx, ftemp, humidity, ki, lines, tam, c, gauges,
                    values, btn, prev, resp, respMid >>

\* lines 319-326: ftemp and humidity from the BME280, ftemp from the PCT2075
TempOf(cb, cp) ==
    IF args.pct2075 THEN celsius2fahrenheit(cp)
    ELSE IF args.bme280 THEN celsius2fahrenheit(cb)
    ELSE None

\* lines 288-326 when the particulate read succeeds or the sensor is disabled
ReadSensors ==
    /\ pc = "read"
    /\ IF args.pm25
       THEN \E aq \in AirqualReadings(env) :
              /\ airqual' = aq
              /\ pm10std' = aq["pm10 standard"]
              /\ pm25std' = aq["pm25 standard"]
              /\ pm100std' = aq["pm100 standard"]
              /\ pm25def' = get_pm_description(aq["pm25 standard"])
              /\ pm100def' = get_pm_description(aq["pm100 standard"])
       ELSE /\ pm10std' = None /\ pm25std' = None /\ pm100std' = None
            /\ pm25def' = "None" /\ pm100def' = "None"
            /\ UNCHANGED airqual
    /\ tx' = now
    /\ \E cb \in BmeCelsiusValues(env), cp \in PctCelsiusValues(env) :
          /\ celsius' = [ bme |-> IF args.bme280 THEN cb ELSE None,
                          pct |-> IF args.pct2075 THEN cp ELSE None ]
          /\ ftemp' = TempOf(cb, cp)
    /\ IF args.bme280
       THEN \E h \in HumidityValues(env) : humidity' = h
       ELSE humidity' = None
    /\ pc' = "pub_reset"
    /\ UNCHANGED << env, args, n, polls, data, now, screen, logged_time, started, stops, co2,
                    ki, lines, tam, c, gauges, values, btn, cyc, prev, resp,
                    respMid >>

\* line 328: data = {}
PubReset ==
    /\ pc = "pub_reset"
    /\ prev' = data
    /\ resp' = NoDoc
    /\ respMid' = FALSE
    /\ data' = EmptyDoc
    /\ cyc' = [ cyc EXCEPT !.published = TRUE ]
    /\ pc' = "pub_time"
    /\ UNCHANGED << env, args, celsius, n, polls, now, screen, logged_time, started, stops, co2,
                    airqual, loopLocals, ki, lines, tam, c, gauges, values,
                    btn >>

\* line 329: data.update({'airmon_time': dt.isoformat()})
PubTime ==
    /\ pc = "pub_time"
    /\ data' = Update(data, "airmon_time", tx)
    /\ pc' = "pub_co2"
    /\ UNCHANGED << env, args, celsius, n, polls, now, screen, logged_time, started, stops, co2,
                    airqual, loopLocals, ki, lines, tam, c, gauges, values,
                    btn, cyc, prev, resp, respMid >>

SetGauge(g, v) ==
    /\ gauges' = [ gauges EXCEPT ![g] = v ]
    /\ cyc' = [ cyc EXCEPT !.set = @ \cup {g} ]

\* PubCO2 without the `if co2`
PubCO2Unguarded ==
    /\ pc = "pub_co2"
    /\ data' = Update(data, "airmon_co2", co2)
    /\ SetGauge("CO2", co2)
    /\ pc' = "pub_temp"
    /\ UNCHANGED << env, args, celsius, n, polls, now, screen, logged_time, started,
                    stops, co2, airqual, loopLocals, ki, lines, tam, c,
                    values, btn, prev, resp, respMid >>

\* lines 331-333: if co2: publish it and set the gauge
PubCO2 ==
    /\ pc = "pub_co2"
    /\ IF Truthy(co2)
       THEN /\ data' = Update(data, "airmon_co2", co2)
            /\ SetGauge("CO2", co2)
       ELSE UNCHANGED << data, gauges, cyc >>
    /\ pc' = "pub_temp"
    /\ UNCHANGED << env, args, celsius, n, polls, now, screen, logged_time, started, stops, co2,
                    airqual, loopLocals, ki, lines, tam, c, values, btn,
                    prev, resp, respMid >>

\* lines 335-337: if ftemp: publish it and set the gauge
PubTemp ==
    /\ pc = "pub_temp"
    /\ IF Truthy(ftemp)
       THEN /\ data' = Update(data, "airmon_temp", ftemp)
            /\ SetGauge("TEMP", ftemp)
       ELSE UNCHANGED << data, gauges, cyc >>
    /\ pc' = "pub_hum"
    /\ UNCHANGED << env, args, celsius, n, polls, now, screen, logged_time, started, stops, co2,
                    airqual, loopLocals, ki, lines, tam, c, values, btn,
                    prev, resp, respMid >>

\* lines 339-340: if bme280: a fresh read of bme280.humidity goes in data
PubHumidity ==
    /\ pc = "pub_hum"
    /\ IF args.bme280
       THEN /\ \E h \in HumidityValues(env) : data' = Update(data, "airmon_humidity", h)
            /\ pc' = "pub_pres"
       ELSE /\ UNCHANGED data
            /\ pc' = "pub_pm"
    /\ UNCHANGED << env, args, celsius, n, polls, now, screen, logged_time, started, stops, co2,
                    airqual, loopLocals, ki, lines, tam, c, gauges, values,
                    btn, cyc, prev, resp, respMid >>

\* line 341: a read of bme280.pressure goes in data
PubPressure ==
    /\ pc = "pub_pres"
    /\ \E p \in PressureValues(env) : data' = Update(data, "airmon_pressure", p)
    /\ pc' = "pub_bmeg"
    /\ UNCHANGED << env, args, celsius, n, polls, now, screen, logged_time, started, stops, co2,
                    airqual, loopLocals, ki, lines, tam, c, gauges, values,
                    btn, cyc, prev, resp, respMid >>

\* lines 342-343: two more reads of the BME280 set the gauges
PubBmeGauges ==
    /\ pc = "pub_bmeg"
    /\ \E h \in HumidityValues(env), p \in PressureValues(env) :
          /\ gauges' = [ gauges EXCEPT !["HUMIDITY"] = h, !["PRESSURE"] = p ]
          /\ cyc' = [ cyc EXCEPT !.set = @ \cup {"HUMIDITY", "PRESSURE"} ]
    /\ pc' = "pub_pm"
    /\ UNCHANGED << env, args, celsius, n, polls, data, now, screen, logged_time, started, stops, co2,
                    airqual, loopLocals, ki, lines, tam, c, values, btn,
                    prev, resp, respMid >>

\* line 345: if airqual (a non-empty dict is true, None is false)
PubPM ==
    /\ pc = "pub_pm"
    /\ pc' = IF DOMAIN airqual # {} THEN "pub_pmkey" ELSE "log"
    /\ ki' = 1
    /\ UNCHANGED << env, args, celsius, n, polls, data, now, screen, logged_time, started, stops, co2,
                    airqual, loopLocals, lines, tam, c, gauges, values, btn,
                    cyc, prev, resp, respMid >>

\* lines 346-347: one iteration of `for k in airqual`
PubPMKey ==
    /\ pc = "pub_pmkey"
    /\ ki <= Len(AirqualKeys)
    /\ data' = Update(data, DataKey(AirqualKeys[ki]), airqual[AirqualKeys[ki]])
    /\ ki' = ki + 1
    /\ pc' = IF ki = Len(AirqualKeys) THEN "pub_pmg" ELSE "pub_pmkey"
    /\ UNCHANGED << env, args, celsius, n, polls, now, screen, logged_time, started, stops, co2,
                    airqual, loopLocals, lines, tam, c, gauges, values, btn,
                    cyc, prev, resp, respMid >>

\* lines 348-350: the three particulate gauges
PubPMGauges ==
    /\ pc = "pub_pmg"
    /\ gauges' = [ gauges EXCEPT !["PM10"] = pm10std, !["PM25"] = pm25std,
                                 !["PM100"] = pm100std ]
    /\ cyc' = [ cyc EXCEPT !.set = @ \cup {"PM10", "PM25", "PM100"} ]
    /\ pc' = "log"
    /\ UNCHANGED << env, args, celsius, n, polls, data, now, screen, logged_time, started, stops, co2,
                    airqual, loopLocals, ki, lines, tam, c, values, btn,
                    prev, resp, respMid >>

Publish ==
    \/ PubReset \/ PubTime \/ PubCO2 \/ PubTemp \/ PubHumidity
    \/ PubPressure \/ PubBmeGauges \/ PubPM \/ PubPMKey \/ PubPMGauges

\* ------------------------------------------------- the rate-limited log
\* (resp, the record of a request served while the dict was being filled, is
\*  dropped by the step that follows the publish)
\* line 357: values = [tday, ttime, ftemp, humidity, pm10std, ... , co2]
Row ==
    [ t |-> tx, ftemp |-> ftemp, humidity |-> humidity,
      pm10std |-> pm10std, pm25std |-> pm25std, pm100std |-> pm100std,
      parts |-> IF args.pm25
                THEN [ i \in 4..9 |-> airqual[AirqualKeys[i]] ]
                ELSE [ i \in 4..9 |-> None ],
      hostname |-> hostname, co2 |-> co2 ]

\* line 358: lines = [date and time, host (ip), tempstr, pmstd]
Lines ==
    << "tday ttime",
       "hostname (ip)",
       IF args.pct2075 THEN "ftemp"
       ELSE IF args.bme280 THEN "ftemp hum pres"
       ELSE "No temperature data",
       IF args.pm25 THEN "pmstd" ELSE "None" >>

\* line 361: (logged_time is None) or (mktime(tx) - mktime(logged_time)) > ginterval
GateOpen(t, lt, gi) == lt = None \/ (t - lt) > gi

\* lines 357-360 with the remote log disabled
LogSkip ==
    /\ pc = "log"
    /\ ~args.google
    /\ values' = Row
    /\ lines' = Lines
    /\ pc' = "render"
    /\ resp' = NoDoc /\ respMid' = FALSE
    /\ UNCHANGED << env, args, celsius, n, polls, data, now, screen, logged_time, started, stops, co2,
                    airqual, loopLocals, ki, tam, c, gauges, btn, cyc, prev >>

\* lines 361-363 without a BME280: the f-string of line 363 evaluates
\* bme280.humidity on None (and formats ftemp = None when there is no
\* PCT2075 either); nothing catches the error
LogCrash ==
    /\ pc = "log"
    /\ args.google
    /\ GateOpen(tx, logged_time, args.ginterval)
    /\ ~args.bme280
    /\ values' = Row
    /\ lines' = Lines
    /\ cyc' = [ cyc EXCEPT !.gate = "open" ]
    /\ pc' = "crashed"
    /\ resp' = NoDoc /\ respMid' = FALSE
    /\ UNCHANGED << env, args, celsius, n, polls, data, now, screen, logged_time, started, stops, co2,
                    airqual, loopLocals, ki, tam, c, gauges, btn, prev >>

\* AfterAppend with `logged_time = tx` moved out of the try block
AfterAppendAlways(ok, t, lt) == t

\* lines 364-368: logged_time = tx only when append_row returned
AfterAppend(ok, t, lt) == IF ok THEN t ELSE lt

\* LogAppend with the `else` of line 369 lost: the hint line is added as well
LogAppendWithHint ==
    /\ pc = "log"
    /\ args.google
    /\ GateOpen(tx, logged_time, args.ginterval)
    /\ args.bme280
    /\ values' = Row
    /\ lines' = Append(Lines, "next logging")
    /\ \E ok \in BOOLEAN :
          /\ logged_time' = AfterAppend(ok, tx, logged_time)
          /\ cyc' = [ cyc EXCEPT !.gate = "open",
                                 !.append = IF ok THEN "ok" ELSE "fail" ]
    /\ pc' = "render"
    /\ resp' = NoDoc /\ respMid' = FALSE
    /\ UNCHANGED << env, args, celsius, n, polls, data, now, screen, started,
                    stops, co2, airqual, loopLocals, ki, tam, c, gauges, btn,
                    prev >>

\* lines 361-368 with a BME280: the gate is open, one append_row call
LogAppend ==
    /\ pc = "log"
    /\ args.google
    /\ GateOpen(tx, logged_time, args.ginterval)
    /\ args.bme280
    /\ values' = Row
    /\ lines' = Lines
    /\ \E ok \in BOOLEAN :
          /\ logged_time' = AfterAppend(ok, tx, logged_time)
          /\ cyc' = [ cyc EXCEPT !.gate = "open",
                                 !.append = IF ok THEN "ok" ELSE "fail" ]
    /\ pc' = "render"
    /\ resp' = NoDoc /\ respMid' = FALSE
    /\ UNCHANGED << env, args, celsius, n, polls, data, now, screen, started, stops, co2, airqual,
                    loopLocals, ki, tam, c, gauges, btn, prev >>

\* line 370: tam = args.interval - (mktime(tx) - mktime(logged_time))
TimeRemaining(t, lt) == args.interval - (t - lt)

\* LogSuppressed with the hint put in place of the fourth line
LogSuppressedReplace ==
    /\ pc = "log"
    /\ args.google
    /\ ~GateOpen(tx, logged_time, args.ginterval)
    /\ values' = Row
    /\ tam' = TimeRemaining(tx, logged_time)
    /\ lines' = [ Lines EXCEPT ![4] = "next logging" ]
    /\ cyc' = [ cyc EXCEPT !.gate = "closed" ]
    /\ pc' = "render"
    /\ resp' = NoDoc /\ respMid' = FALSE
    /\ UNCHANGED << env, args, celsius, n, polls, data, now, screen,
                    logged_time, started, stops, co2, airqual, loopLocals, ki,
                    c, gauges, btn, prev >>

\* lines 369-371: the gate is closed, a fifth line is appended to lines
LogSuppressed ==
    /\ pc = "log"
    /\ args.google
    /\ ~GateOpen(tx, logged_time, args.ginterval)
    /\ values' = Row
    /\ tam' = TimeRemaining(tx, logged_time)
    /\ lines' = Append(Lines, "next logging")
    /\ cyc' = [ cyc EXCEPT !.gate = "closed" ]
    /\ pc' = "render"
    /\ resp' = NoDoc /\ respMid' = FALSE
    /\ UNCHANGED << env, args, celsius, n, polls, data, now, screen, logged_time, started, stops, co2,
                    airqual, loopLocals, ki, c, gauges, btn, prev >>

Log == LogSkip \/ LogCrash \/ LogAppend \/ LogSuppressed

\* ------------------------------------------------------------ the display
\* lines 373-381 with the screen off: nothing is drawn
RenderSkip ==
    /\ pc = "render"
    /\ ~screen
    /\ pc' = "buttons"
    /\ UNCHANGED << env, args, celsius, n, polls, data, now, screen, logged_time, started, stops, co2,
                    airqual, loopLocals, ki, lines, tam, c, gauges, values,
                    btn, cyc, prev, resp, respMid >>

\* line 375 without a particulate sensor: particles2color(None, None, None)
\* compares None > 2, a TypeError nothing catches
RenderCrash ==
    /\ pc = "render"
    /\ screen
    /\ pm25std = None
    /\ pc' = "crashed"
    /\ UNCHANGED << env, args, celsius, n, polls, data, now, screen, logged_time, started, stops, co2,
                    airqual, loopLocals, ki, lines, tam, c, gauges, values,
                    btn, cyc, prev, resp, respMid >>

\* lines 373-381: background colour, then every line of lines
Render ==
    /\ pc = "render"
    /\ screen
    /\ pm25std # None
    /\ c' = particles2color(pm10std, pm25std, pm100std)
    /\ cyc' = [ cyc EXCEPT !.rendered = TRUE ]
    /\ pc' = "buttons"
    /\ UNCHANGED << env, args, celsius, n, polls, data, now, screen, logged_time, started, stops, co2,
                    airqual, loopLocals, ki, lines, tam, gauges, values, btn,
                    prev, resp, respMid >>

\* lines 384-389: `not buttonA.value` shows, then `not buttonB.value` hides
ScreenAfter(s, a, b) == IF b THEN FALSE ELSE IF a THEN TRUE ELSE s

\* Gesture with the second `not` left out
GestureRawB(a, b) == a /\ ~b

\* line 390: both `not buttonA.value` and `not buttonB.value`
Gesture(a, b) == a /\ b

\* lines 383-391 without a display: the two inputs (set up at lines 233-236
\* whatever the display) have a level, and nothing reads it
ButtonsSkip ==
    /\ pc = "buttons"
    /\ ~args.st7789
    /\ \E a \in BOOLEAN, b \in BOOLEAN :
          btn' = [ a1 |-> a, b1 |-> b, a2 |-> a, b2 |-> b, read |-> FALSE ]
    /\ pc' = "sleep"
    /\ UNCHANGED << env, args, celsius, n, polls, data, now, screen, logged_time, started, stops, co2,
                    airqual, loopLocals, ki, lines, tam, c, gauges, values,
                    cyc, prev, resp, respMid >>

\* lines 383-391 with a display: buttonA is read at 384 and 390, buttonB at
\* 387 and 390 (true = asserted, that is `not button.value`)
Buttons ==
    /\ pc = "buttons"
    /\ args.st7789
    /\ \E a1 \in BOOLEAN, b1 \in BOOLEAN, a2 \in BOOLEAN, b2 \in BOOLEAN :
          /\ screen' = ScreenAfter(screen, a1, b1)
          /\ btn' = [ a1 |-> a1, b1 |-> b1, a2 |-> a2, b2 |-> b2,
                      read |-> TRUE ]
          /\ pc' = IF Gesture(a2, b2) THEN "stop" ELSE "sleep"
    /\ UNCHANGED << env, args, celsius, n, polls, data, now, logged_time, started, stops, co2,
                    airqual, loopLocals, ki, lines, tam, c, gauges, values,
                    cyc, prev, resp, respMid >>

\* lines 393-394: after the loop, stop the SCD40 if there is one
StopsAfter(k) == IF args.scd40 THEN k + 1 ELSE k

Stop ==
    /\ pc = "stop"
    /\ stops' = StopsAfter(stops)
    /\ pc' = "done"
    /\ UNCHANGED << env, args, celsius, n, polls, data, now, screen, logged_time, started, co2,
                    airqual, loopLocals, ki, lines, tam, c, gauges, values,
                    btn, cyc, prev, resp, respMid >>

Display == RenderSkip \/ RenderCrash \/ Render \/ ButtonsSkip \/ Buttons

\* ------------------------------------------------------ the JSON pull server
\* SensorDataServer.do_GET: json.dumps of whatever `data` names right now
do_GET ==
    /\ pc \notin {"done", "crashed"}
    /\ resp' = data
    /\ respMid' = (pc \in {"pub_time", "pub_co2", "pub_temp", "pub_hum",
                           "pub_pres", "pub_bmeg", "pub_pm", "pub_pmkey",
                           "pub_pmg"})
    /\ UNCHANGED << env, args, celsius, n, polls, data, pc, now, screen, logged_time, started, stops,
                    co2, airqual, loopLocals, ki, lines, tam, c, gauges,
                    values, btn, cyc, prev >>

\* ------------------------------------------- the classifiers on their own
\* lines 303-304: pm25def, pm100def = get_pm_description(...)
Describe ==
    /\ pc = "describe"
    /\ pm25def' = get_pm_description(pm25std)
    /\ pm100def' = get_pm_description(pm100std)
    /\ pc' = "described"
    /\ UNCHANGED << env, args, celsius, n, polls, data, now, screen, logged_time,
                    started, stops, co2, airqual, tx, ftemp, humidity,
                    pm10std, pm25std, pm100std, ki, lines, tam, c, gauges,
                    values, btn, cyc, prev, resp, respMid >>

\* line 375: c = particles2color(pm10std, pm25std, pm100std)
Colorize ==
    /\ pc = "colorize"
    /\ c' = particles2color(pm10std, pm25std, pm100std)
    /\ pc' = "colored"
    /\ UNCHANGED << env, args, celsius, n, polls, data, now, screen, logged_time,
                    started, stops, co2, airqual, loopLocals, ki, lines, tam,
                    gauges, values, btn, cyc, prev, resp, respMid >>

AllOn ==
    [ scd40 |-> TRUE, pct2075 |-> TRUE, bme280 |-> TRUE, st7789 |-> TRUE,
      pm25 |-> TRUE, google |-> TRUE, interval |-> 1, ginterval |-> 2 ]

\* every concentration up to MaxVal is described once as PM2.5 and once as PM10
InitBand ==
    /\ LoopEntry(AllOn, "pm25")
    /\ pm25std \in 0..MaxVal
    /\ pm100std = MaxVal - pm25std
    /\ pc = "describe"

InitColor ==
    /\ LoopEntry(AllOn, "pm25")
    /\ pm25std \in 0..MaxPM25
    /\ pm100std \in 0..MaxPM100
    /\ pc = "colorize"

\* the main thread with a particulate sensor and neither SCD40, display nor
\* remote log, while the BME280 reads every temperature of the range
TempArgs ==
    { a \in Args : /\ ~a.scd40 /\ ~a.st7789 /\ ~a.google /\ a.pm25
                   /\ a.interval = 1 /\ a.ginterval = 2 }

InitTemp ==
    \E a \in TempArgs :
        /\ LoopEntry(a, "celsius")
        /\ pm25std = None /\ pm100std = None
        /\ pc = "sleep"

NextTemp ==
    Sleep \/ ReadPMFail \/ ReadSensors \/ Publish \/ LogSkip \/ RenderSkip
      \/ ButtonsSkip

SpecTemp == InitTemp /\ [][NextTemp]_vars

SpecBand == InitBand /\ [][Describe]_vars

SpecColor == InitColor /\ [][Colorize]_vars

\* ==================================================================
\* The claims
\* ==================================================================
PublishPcs ==
    { "pub_time", "pub_co2", "pub_temp", "pub_hum", "pub_pres", "pub_bmeg",
      "pub_pm", "pub_pmkey", "pub_pmg" }

\* C1 (as claimed): when a publish has just finished, a document that do_GET
\* served since that publish began is either the complete Snapshot of the
\* previous cycle or the complete Snapshot of this cycle.
C1_Claim ==
    (pc = "log" /\ respMid) => (resp = prev \/ resp = data)

\* C2 (as claimed): with the remote log enabled, a cycle that has got its
\* timestamp and left the rate-limit step performed an append if and only if
\* no append had succeeded before or timestamp - last-logged-at > interval.
C2_Claim ==
    [][ (pc = "log" /\ pc' # "log" /\ args.google)
          => ((cyc'.append # "none")
                <=> (logged_time = None \/ tx - logged_time > args.ginterval))
      ]_vars

\* C3: last-logged-at changes only in the step of a successful append and then
\* becomes that cycle's timestamp; a failed append, a suppressed cycle and a
\* cycle aborted by a sensor failure leave it unchanged; and when the latest
\* append failed the gate is open at the next rate-limit step.
C3_LoggedOnlyOnSuccess ==
    [][ /\ (logged_time' # logged_time)
            => (pc = "log" /\ cyc'.append = "ok" /\ logged_time' = tx)
        /\ (cyc'.append = "fail" /\ cyc.append = "none")
            => logged_time' = logged_time
        /\ (cyc'.gate = "closed" \/ cyc'.pmfail) => logged_time' = logged_time
        /\ (pc' = "log" /\ args.google /\ cyc'.lastlog = "fail")
            => GateOpen(tx', logged_time', args.ginterval)
      ]_vars

C3_Witness ==
    /\ pc = "log" /\ args.google /\ cyc.lastlog = "fail"
    /\ logged_time # None

\* C4: in a cycle whose particulate read failed no sink is invoked (data is
\* not rebound or written, no gauge is set, no append is attempted, nothing
\* is rendered) and the loop is back at its top, neither ended nor crashed.
C4_FailedReadSkipsSinks ==
    [][ cyc'.pmfail =>
          /\ pc' = "sleep"
          /\ data' = data /\ gauges' = gauges /\ logged_time' = logged_time
          /\ ~cyc'.published /\ cyc'.set = {} /\ cyc'.append = "none"
          /\ cyc'.gate = "none" /\ ~cyc'.rendered
      ]_vars

C4_Witness ==
    /\ cyc.pmfail /\ pc = "sleep" /\ n >= 2
    /\ Has(data, "airmon_pm25_standard")

AllAsserted == btn.a1 /\ btn.b1 /\ btn.a2 /\ btn.b2

\* C5 (as claimed): in every configuration, when both buttons are asserted at
\* the button step of a cycle the loop has left its cycle.
C5_Claim ==
    AllAsserted => pc \in {"stop", "done"}

\* C5 (amended): with a display enabled, when both buttons are asserted at the
\* button step the loop ends with that cycle; the stop-measurement command is
\* never issued before the loop has ended, and once the process is done it
\* has been issued exactly once if the measurement was started and not at all
\* otherwise.
C5_GestureEndsLoop ==
    /\ (args.st7789 /\ btn.read /\ btn.a2 /\ btn.b2) => pc \in {"stop", "done"}
    /\ pc = "done" => stops = (IF started THEN 1 ELSE 0)
    /\ pc # "done" => stops = 0

C5_Witness ==
    /\ pc = "done" /\ started /\ stops = 1 /\ AllAsserted /\ btn.read

\* C6 (as claimed): no cycle ends the process through an uncaught error.
C6_Claim ==
    pc # "crashed"

DisabledKeys ==
    (IF args.scd40 THEN {} ELSE {"airmon_co2"})
    \cup (IF args.bme280 \/ args.pct2075 THEN {} ELSE {"airmon_temp"})
    \cup (IF args.bme280 THEN {} ELSE {"airmon_humidity", "airmon_pressure"})
    \cup (IF args.pm25 THEN {} ELSE PMDataKeys)

\* C7: the fields of every disabled sensor are absent from the dict `data` in
\* every state, and from every document do_GET serves.
C7_DisabledAbsent ==
    /\ DOMAIN data \cap DisabledKeys = {}
    /\ DOMAIN resp \cap DisabledKeys = {}

C7_Witness ==
    /\ n >= 2 /\ pc = "log"
    /\ ~args.scd40 /\ ~args.pm25 /\ args.bme280
    /\ Has(data, "airmon_humidity") /\ Has(resp, "airmon_humidity")

\* the colour of the highest threshold step whose condition holds
LastMatchColor(p25, p100) ==
    IF p25 > 250 \/ p100 > 425 THEN "magenta"
    ELSE IF p25 > 150 \/ p100 > 355 THEN "purple"
    ELSE IF p25 * 10 > 554 \/ p100 > 254 THEN "red"
    ELSE IF p25 * 10 > 354 \/ p100 > 155 THEN "orange"
    ELSE IF p25 > 12 \/ p100 > 55 THEN "yellow"
    ELSE IF p25 > 2 \/ p100 > 2 THEN "olive"
    ELSE "green"

\* C8 (as claimed): particles2color returns the colour of the highest
\* threshold step that holds; (0,0) green, (3,0) olive, (13,0) yellow,
\* (40,0) orange.
C8_Claim ==
    pc = "colored" =>
        /\ c = LastMatchColor(pm25std, pm100std)
        /\ (pm25std = 0 /\ pm100std = 0) => c = "green"
        /\ (pm25std = 3 /\ pm100std = 0) => c = "olive"
        /\ (pm25std = 13 /\ pm100std = 0) => c = "yellow"
        /\ (pm25std = 40 /\ pm100std = 0) => c = "orange"

Band(v, d) ==
    /\ (v < 51) <=> (d = "good")
    /\ (51 <= v /\ v <= 100) <=> (d = "moderate")
    /\ (101 <= v /\ v <= 150) <=> (d = "usg")
    /\ (151 <= v /\ v <= 200) <=> (d = "unhealthy")
    /\ (201 <= v /\ v <= 299) <=> (d = "very unhealthy")
    /\ (300 <= v /\ v <= 499) <=> (d = "hazardous")
    /\ (v >= 500) <=> (d = "None")

\* C9: get_pm_description gives a band to every value below 500 and none at
\* 500 and above: good below 51, moderate 51..100, usg 101..150, unhealthy
\* 151..200, very unhealthy 201..299, hazardous 300..499.
C9_Bands ==
    pc = "described" => Band(pm25std, pm25def) /\ Band(pm100std, pm100def)

C9_Witness ==
    pc = "described" /\ pm25std = 51 /\ pm25def = "moderate"
    /\ pm100std >= 300 /\ pm100def = "hazardous"

\* C10 (as claimed): a document served while no publish is under way holds
\* both the station name and the capture timestamp.
C10_Claim ==
    (DOMAIN resp # DOMAIN NoDoc /\ ~respMid)
        => (Has(resp, "airmon_station") /\ Has(resp, "airmon_time"))

\* the Snapshot field a gauge mirrors
GaugeKey(g) ==
    CASE g = "CO2"      -> "airmon_co2"
      [] g = "TEMP"     -> "airmon_temp"
      [] g = "HUMIDITY" -> "airmon_humidity"
      [] g = "PRESSURE" -> "airmon_pressure"
      [] g = "PM10"     -> "airmon_pm10_standard"
      [] g = "PM25"     -> "airmon_pm25_standard"
      [] g = "PM100"    -> "airmon_pm100_standard"

\* C11 (as claimed): a gauge changes only in a step that sets it; when the
\* publish of a cycle has finished, the gauges set in the cycle are those of
\* the measurements present in the Snapshot, each holds the Snapshot's value,
\* and every other gauge still holds what it held before the cycle.
C11_Claim ==
    [][ \A g \in GaugeNames :
          /\ (gauges'[g] # gauges[g]) => (g \in cyc'.set)
          /\ (pc' = "log") =>
                /\ (g \in cyc'.set) <=> Has(data', GaugeKey(g))
                /\ Has(data', GaugeKey(g)) => gauges'[g] = data'[GaugeKey(g)]
      ]_vars

\* c * 1.8 + 32 in tenths of a degree
Fahrenheit10(deg) == (deg * 18) + (32 * 10)

\* the temperature a cycle ends with: the PCT2075's reading converted if
\* there is one, else the BME280's, else none
ExpectedTemp ==
    IF args.pct2075 THEN Fahrenheit10(celsius.pct)
    ELSE IF args.bme280 THEN Fahrenheit10(celsius.bme)
    ELSE None

\* C12: celsius2fahrenheit(0) = 32 and celsius2fahrenheit(100) = 212; once a
\* cycle has read its sensors ftemp is c * 1.8 + 32 of the Celsius reading,
\* and the temperature in the Snapshot, in the gauge and in the log row of
\* that cycle is that value (none of them holds one without a sensor).
C12_Converted ==
    /\ celsius2fahrenheit(0) = 320
    /\ celsius2fahrenheit(100) = 2120
    /\ tx # None => ftemp = ExpectedTemp
    /\ (tx # None /\ pc \notin {"pub_reset", "pub_time", "pub_co2", "pub_temp"})
          => IF ExpectedTemp = None
             THEN ~Has(data, "airmon_temp") /\ "TEMP" \notin cyc.set
             ELSE /\ Has(data, "airmon_temp")
                  /\ data["airmon_temp"] = ExpectedTemp
                  /\ gauges["TEMP"] = ExpectedTemp
    /\ (tx # None /\ values # NoRow) => values.ftemp = ExpectedTemp

\* 37 degrees Celsius are 98.6 degrees Fahrenheit in all three sinks
C12_Witness ==
    /\ pc = "render" /\ ~args.pct2075 /\ args.bme280 /\ celsius.bme = 37
    /\ data["airmon_temp"] = 986 /\ gauges["TEMP"] = 986
    /\ values.ftemp = 986

\* C13 (as claimed): once the particulate read of a cycle has failed, the
\* clock does not advance by a sleep before the loop is at its reads again.
C13_Claim ==
    [][ (cyc.pmfail /\ pc' # pc) => now' = now ]_vars

\* C13 (amended): the failed read itself takes the loop straight back to the
\* top of `while True` without waiting; from there the only step of the loop
\* is the ordinary sleep of one interval (plus the warm-up with an SCD40),
\* neither skipped nor lengthened, and it leads to the reads of the next
\* cycle.
C13_SleepsOnceThenReads ==
    [][ /\ (cyc'.pmfail /\ ~cyc.pmfail) => (pc' = "sleep" /\ now' = now)
        /\ (cyc.pmfail /\ pc' # pc) =>
              /\ pc = "sleep"
              /\ now' = now + LoopInterval
              /\ pc' = (IF args.scd40 THEN "co2" ELSE "read")
              /\ cyc'.afterfail
      ]_vars

C13_Witness ==
    /\ cyc.afterfail /\ pc = "read" /\ n >= 2
    /\ now >= 2 * LoopInterval

\* where the main thread is once an iteration is past the wait of lines 282-285
PastWaitPcs ==
    { "read", "pub_reset", "log", "render", "buttons", "stop", "done",
      "crashed" } \cup PublishPcs

\* C14: with the SCD40 enabled the loop is past the data-ready wait of an
\* iteration, changes co2, data, a gauge or the log time, or has ended, only
\* when data_ready was seen true in that iteration; a step of the wait that
\* does not see it true stays in the wait and reads, publishes and logs
\* nothing, so as long as data_ready stays false nothing more is published
\* and the loop does not end.
C14_WaitsForReady ==
    [][ /\ (args.scd40 /\ pc' \in PastWaitPcs) => cyc'.ready
        /\ (args.scd40 /\ (co2' # co2 \/ data' # data \/ gauges' # gauges
                            \/ logged_time' # logged_time
                            \/ airqual' # airqual))
              => cyc'.ready
        /\ (pc = "co2" /\ ~cyc'.ready) =>
              /\ pc' = "co2"
              /\ UNCHANGED << co2, airqual, celsius, tx, data, gauges, values,
                              lines, logged_time, stops, n >>
      ]_vars

C14_Witness ==
    /\ env = "notready" /\ n = 1 /\ polls >= 1
    /\ now = LoopInterval + (polls * PollSleep)
    /\ pc = "log" /\ cyc.ready /\ data["airmon_co2"] = 400

\* C15 (as claimed): when the publish of a cycle has finished (every read of
\* the cycle succeeded), a field is in the Snapshot if and only if its sensor
\* is enabled, whatever value was read.
C15_Claim ==
    pc = "log" =>
        /\ Has(data, "airmon_co2") <=> args.scd40
        /\ Has(data, "airmon_temp") <=> (args.bme280 \/ args.pct2075)
        /\ Has(data, "airmon_humidity") <=> args.bme280
        /\ Has(data, "airmon_pressure") <=> args.bme280
        /\ \A k \in PMDataKeys : Has(data, k) <=> args.pm25

\* C16 (as claimed): when the sinks of a cycle have been served, each
\* measurement has one value in that cycle: the Snapshot, the gauge and the
\* log row agree on humidity, pressure (not in the row), temperature, CO2 and
\* the three particulate masses.
C16_Claim ==
    pc \in {"render", "buttons"} =>
        /\ args.bme280 =>
              /\ data["airmon_humidity"] = gauges["HUMIDITY"]
              /\ data["airmon_humidity"] = values.humidity
              /\ data["airmon_pressure"] = gauges["PRESSURE"]
        /\ Has(data, "airmon_temp") =>
              /\ data["airmon_temp"] = gauges["TEMP"]
              /\ data["airmon_temp"] = values.ftemp
        /\ Has(data, "airmon_co2") =>
              /\ data["airmon_co2"] = gauges["CO2"]
              /\ data["airmon_co2"] = values.co2
        /\ args.pm25 =>
              /\ data["airmon_pm10_standard"] = gauges["PM10"]
              /\ data["airmon_pm25_standard"] = gauges["PM25"]
              /\ data["airmon_pm100_standard"] = gauges["PM100"]
              /\ data["airmon_pm10_standard"] = values.pm10std
              /\ data["airmon_pm25_standard"] = values.pm25std
              /\ data["airmon_pm100_standard"] = values.pm100std

\* the rate-limit step and the display step of this iteration are behind
Completed == cyc.published /\ pc \in {"buttons", "sleep", "stop", "done"}

HintSurfaced == \E i \in 1..Len(lines) : lines[i] = "next logging"

\* C17: in a completed cycle with the remote log enabled the gate was either
\* open, and then one append was attempted and no hint was added to the lines
\* for the display, or closed, and then no append was attempted and the hint
\* was added; without the remote log there is neither; and in no state is
\* there a hint beside an attempted append.
C17_AppendOrHint ==
    /\ Completed =>
          IF args.google
          THEN /\ cyc.gate \in {"open", "closed"}
               /\ (cyc.gate = "open") <=> (cyc.append \in {"ok", "fail"})
               /\ (cyc.gate = "closed") <=> HintSurfaced
               /\ (cyc.append # "none") # HintSurfaced
          ELSE cyc.append = "none" /\ ~HintSurfaced
    /\ HintSurfaced => (args.google /\ cyc.append = "none")

C17_Witness ==
    /\ Completed /\ args.google /\ HintSurfaced /\ cyc.gate = "closed"
    /\ cyc.lastlog = "ok" /\ logged_time # None

TempSummaries == { "ftemp", "ftemp hum pres", "No temperature data" }

\* C18 (as claimed): what a render draws is exactly four lines: date and
\* time, station and address, a temperature summary, and fourth the
\* air-quality summary or, in a log-suppressed cycle, the hint.
C18_Claim ==
    cyc.rendered =>
        /\ Len(lines) = 4
        /\ lines[1] = "tday ttime"
        /\ lines[2] = "hostname (ip)"
        /\ lines[3] \in TempSummaries
        /\ lines[4] = (IF cyc.gate = "closed" THEN "next logging" ELSE "pmstd")

\* C18 (amended): what a render draws starts with the four lines date and
\* time, station and address, temperature summary, air-quality summary; in a
\* log-suppressed cycle the hint follows as a fifth line, and in no other
\* cycle is there a fifth line.
C18_FourLinesThenHint ==
    cyc.rendered =>
        /\ Len(lines) = (IF cyc.gate = "closed" THEN 5 ELSE 4)
        /\ lines[1] = "tday ttime"
        /\ lines[2] = "hostname (ip)"
        /\ lines[3] \in TempSummaries
        /\ lines[4] = "pmstd"
        /\ cyc.gate = "closed" => lines[5] = "next logging"

C18_Witness ==
    /\ cyc.rendered /\ pc = "buttons" /\ cyc.gate = "closed"
    /\ Len(lines) = 5 /\ lines[4] = "pmstd" /\ lines[5] = "next logging"

\* C19 (as claimed): with a display, the button step leaves the flag true if
\* only A is asserted, false if B is asserted, unchanged if neither; the flag
\* changes in no other step, so at the display step it is what the previous
\* cycle left, and the display step renders if and only if it is true; and
\* without a display the flag is never true.
C19_Claim ==
    [][ /\ (pc = "buttons" /\ pc' # pc /\ args.st7789) =>
              /\ (btn'.a1 /\ ~btn'.b1) => screen'
              /\ btn'.b1 => ~screen'
              /\ (~btn'.a1 /\ ~btn'.b1) => (screen' = screen)
        /\ (screen' # screen) => pc = "buttons"
        /\ (pc = "render" /\ pc' # pc) => (cyc'.rendered <=> screen)
        /\ ~args.st7789 => ~screen'
      ]_vars

\* C20 (as claimed): whenever the hint is on the lines for the display, its
\* value is the remote-log interval minus the time since the last successful
\* append, and it is not negative.
C20_Claim ==
    HintSurfaced =>
        /\ tam = args.ginterval - (tx - logged_time)
        /\ tam >= 0

Next == Sleep \/ Co2NotReady \/ Co2Read \/ ReadPMFail \/ ReadSensors
          \/ Publish \/ Log \/ Display \/ Stop \/ do_GET

Spec == Init /\ [][Next]_vars

====
